---- MODULE Spec2Model ----
(***************************************************************************)
(* Model of plaid-to-airtable: the reconciliation engine (updateAccount    *)
(* and the write phase of Sync), the auth-retry wrapper                    *)
(* (WithRelinkOnAuthError) and the pagination fetcher (AllTransactions).   *)
(*                                                                         *)
(* The specifications share the variables:                                 *)
(*   SpecReconcile  one account of Sync: updateAccount, then the deletes,  *)
(*                  creates and updates issued against the store;          *)
(*   SpecFetch      one item of sync-transactions: the wrapper running    *)
(*                  the action that pages through AllTransactions.         *)
(*   SpecLinker     the Link / Relink flows of one Linker and the callback  *)
(*                  server's handlers;                                     *)
(*   SpecSites      the wrapper at each command that uses it;              *)
(*   SpecSync       Sync over all the accounts of the source;              *)
(*   SpecRun        sync-transactions: the workers, the join, the call of  *)
(*                  Sync;                                                  *)
(*   SpecOld        one account of Sync in its delete+create variant;      *)
(*   SpecAccounts   SyncAccounts, called once or again on the same list.   *)
(* Each keeps the others' variables at their idle values.                  *)
(***************************************************************************)
EXTENDS Integers, Sequences, FiniteSets, TLC

VARIABLES
    \* ---- reconciliation (Sync / updateAccount) ----
    plaidTs,        \* source map of the account: PlaidID -> TransactionRecord
    airtableTs,     \* mirror map of the account: PlaidID -> TransactionRecord
    now,            \* the clock read by updateAccount: [m, d, half]
    rpc,            \* position of Sync for this account
    updates,        \* the AccountUpdate returned by updateAccount
    idx,            \* index of the range loop over the current plan list
    ops,            \* store operations issued so far, in order
    store,          \* the rows of the remote table
    \* ---- wrapper and fetcher ----
    wpc,            \* position of WithRelinkOnAuthError / the action / AllTransactions
    err,            \* the wrapper's err variable
    ret,            \* value returned by the wrapper ("none" before it returns)
    actionResults,  \* what each invocation of the action returned, in order
    relinkResults,  \* what each call of linker.Relink returned, in order
    allTransactions,\* the shared collection the action appends to
    srvMode,        \* how the server pages: "honest" or "any"
    srvTotal,       \* T: number of transactions the honest server holds
    pageCount,      \* P: req.Options.Count
    transactions,   \* AllTransactions: accumulated records
    offset,         \* AllTransactions: req.Options.Offset (int32)
    total,          \* AllTransactions: res.TotalTransactions of the first response
    requests,       \* requests issued by the running AllTransactions call (saturating)
    \* ---- the commands that use the wrapper ----
    site,           \* the command whose action the wrapper runs
    apiResults,     \* what the Plaid call of each invocation of the action returned
    \* ---- Linker ----
    lmode,          \* what the process runs on the Linker: "link" or "relink"
    lpc,            \* position of each caller of Link / Relink
    gpc,            \* position of the goroutine each flow starts
    mu,             \* Linker.mu: 0 when free, else the caller holding it
    registered,     \* http.DefaultServeMux: pattern -> flow that registered it
    listening,      \* a ListenAndServe of this process is serving the port
    portFree,       \* no other process holds the port
    pending,        \* sends blocked on Results / RelinkResults / Errors
    http,           \* the requests handled so far, with the send each attempted
    received,       \* caller -> the values its select received, in order
    lresult,        \* caller -> what Link / Relink returned
    exchangeCalls,  \* ItemPublicTokenExchange calls made
    tokens,         \* data.Tokens: item -> access token
    crashed,        \* the process ended: a panic in a goroutine, or log.Fatal
    \* ---- Sync over the accounts ----
    plaidArranged,  \* byAccountIDbyTransactionID of the source: account -> id -> record
    airtableArranged, \* the same of the mirror's records
    visited,        \* accounts the range loop of Sync has taken so far
    accountID,      \* the account of the running iteration
    \* ---- sync-transactions: fan-out and join ----
    aliases,        \* data.Aliases: alias -> item id
    arg,            \* args[0]: "all" or an alias
    items,          \* the items of the run, in loop order
    mpc,            \* position of the command's own goroutine
    item,           \* index of the item the spawn loop is at
    wg,             \* the WaitGroup counter
    worker,         \* position of the goroutine started for each item
    fetched,        \* what AllTransactions returned to each worker's action
    tmp,            \* the slice each worker read for its append
    transactionsMu, \* 0 when free, else the worker holding it
    runTransactions,\* the allTransactions slice of the command
    mirrorFetches,  \* calls of FetchAirtableTransactions so far
    syncArgs,       \* the source list Sync was called with
    exited,         \* why the process ended early ("" while it runs)
    \* ---- SyncAccounts ----
    plaidAccounts,  \* the AccountRecords built from the accounts it is called with
    accountsTable,  \* the rows of the remote Accounts table
    existingIDs,    \* the AccountIDs of the rows the running call listed
    kpc,            \* position of the running call
    ai,             \* index of the range loop over plaidAccounts
    accountOps,     \* the Create calls issued so far, in order, each with the ids
                    \* the call had listed and the ids the table held
    returns         \* what each finished call of SyncAccounts returned, in order

rvars == <<plaidTs, airtableTs, now, rpc, updates, idx, ops, store>>
fvars == <<wpc, err, ret, actionResults, relinkResults, allTransactions, srvMode,
           srvTotal, pageCount, transactions, offset, total, requests>>
lvars == <<lmode, lpc, gpc, mu, registered, listening, portFree, pending, http,
           received, lresult, exchangeCalls, tokens, crashed>>
avars == <<plaidArranged, airtableArranged, visited, accountID>>
svars == <<aliases, arg, items, mpc, item, wg, worker, fetched, tmp, transactionsMu,
           runTransactions, mirrorFetches, syncArgs, exited>>
cvars == <<site, apiResults>>
kvars == <<plaidAccounts, accountsTable, existingIDs, kpc, ai, accountOps, returns>>
vars == <<rvars, fvars, lvars, avars, svars, cvars, kvars>>
\* what one account's iteration leaves alone
notR == <<fvars, lvars, avars, svars, cvars, kvars>>
\* what the wrapper and the fetcher leave alone
notF == <<rvars, lvars, avars, svars, cvars, kvars>>
\* what the Linker leaves alone
notL == <<rvars, fvars, avars, svars, cvars, kvars>>
\* what the fan-out and join leave alone
notS == <<rvars, fvars, lvars, avars, cvars, kvars, aliases, arg>>

\* ------------------------------------------------------------------ bounds
NumTx == 2          \* transaction ids per account
MaxTotal == 5       \* largest total count the server reports
MaxCount == 2       \* largest page size of a request
NumCallers == 2     \* concurrent callers of Relink on one Linker
MaxHttp == 2        \* requests the callback server handles
NumItems == 2       \* items of a sync-transactions run
NumAccounts == 2    \* accounts in the lists Sync is given
MaxCalls == 2       \* calls of SyncAccounts in one process

\* ------------------------------------------------------------------ helpers
Min(a, b) == IF a < b THEN a ELSE b
Max(a, b) == IF a > b THEN a ELSE b
Range(s) == {s[i] : i \in DOMAIN s}
\* every order in which a Go range loop may visit the keys of a map
Orders(S) == {s \in [1..Cardinality(S) -> S] : \A i, j \in 1..Cardinality(S) : s[i] = s[j] => i = j}

\* ------------------------------------------------------------------ time
\* Instants are half-days counted from Jan 1 00:00 of the current (non-leap)
\* year; a date string is <<month, day>>.
MonthLen(m) == CASE m \in {1, 3, 5, 7, 8, 10, 12} -> 31
                 [] m \in {4, 6, 9, 11} -> 30
                 [] OTHER -> 28

RECURSIVE DaysBefore(_)
\* days of the year before month m; month 0 is December of the year before
DaysBefore(m) == IF m <= 0 THEN 0 - 31
                 ELSE IF m = 1 THEN 0
                 ELSE DaysBefore(m - 1) + MonthLen(m - 1)

\* time.Date normalises an overflowing day into the following month
DateInstant(m, d, half) == 2 * (DaysBefore(m) + d - 1) + half

\* time.Parse("2006-01-02", s): midnight of that day, or an error
ParseOk(s) == s[1] \in 1..12 /\ s[2] \in 1..MonthLen(s[1])
ParseDate(s) == DateInstant(s[1], s[2], 0)

\* time.Now().AddDate(0, -1, 0)
Cutoff(n) == DateInstant(n.m - 1, n.d, n.half)

\* mutant: the cutoff instant itself counts as after
After_M(t, u) == t >= u

After(t, u) == t > u

\* ------------------------------------------------------------------ records
TxID(k) == <<"tx", k>>          \* a Plaid transaction id
RecID(k) == <<"rec", k>>        \* an Airtable record id
PlaidIDs == {TxID(k) : k \in 1..NumTx}

\* plaid.Transaction values the feed may deliver for an id
PlaidSamples ==
    [Pending : BOOLEAN,
     Location : {[Address |-> <<"x">>, City |-> <<"y">>], [Address |-> <<>>, City |-> <<>>]},
     Amount : {1}, Date : {<<3, 10>>}]

\* rows the store may hold for an id: dates on both sides of the cutoff, one
\* that does not parse (Feb 30), and a row whose amount differs from the feed's
AirtableSamples ==
    [Pending : {FALSE}, Address : {<<"x", " ", "y">>}, Amount : {1},
     DateTime : {<<2, 15>>, <<3, 3>>, <<3, 10>>, <<2, 30>>}]
    \cup [Pending : {FALSE}, Address : {<<"x", " ", "y">>}, Amount : {2},
          DateTime : {<<3, 3>>}]

Clocks == {[m |-> 3, d |-> 15, half |-> 0], [m |-> 3, d |-> 31, half |-> 1]}

\* the TransactionRecord Sync builds from a plaid.Transaction
PlaidRecord(id, t) ==
    [ID |-> id, PlaidID |-> id, Pending |-> t.Pending,
     Address |-> t.Location.Address \o <<" ">> \o t.Location.City,
     Amount |-> t.Amount, DateTime |-> t.Date]

\* a TransactionRecord listed from the store
AirtableRecord(id, f) ==
    [ID |-> RecID(id[2]), PlaidID |-> id, Pending |-> f.Pending, Address |-> f.Address,
     Amount |-> f.Amount, DateTime |-> f.DateTime]

\* ------------------------------------------------------------------ updateAccount
EmptyUpdate == [ToCreate |-> <<>>, ToUpdate |-> <<>>, ToDelete |-> <<>>, panicked |-> FALSE]

\* mutant: only the pending flag is compared, as in the delete+create variant
MutableFieldsDiffer_M(existing, t) == existing.Pending # t.Pending

MutableFieldsDiffer(existing, t) ==
    existing.Pending # t.Pending \/ existing.Address # t.Address

\* mutant: the source record keeps its own ID
CarryID_M(t, existing) == t

CarryID(t, existing) == [t EXCEPT !.ID = existing.ID]

RECURSIVE FirstLoop_M(_, _, _, _)
\* mutant: a changed record is created again instead of updated
FirstLoop_M(order, pTs, aTs, u) ==
    IF order = <<>> THEN u
    ELSE LET id == Head(order)
             t == pTs[id]
             u1 == IF id \notin DOMAIN aTs \/ MutableFieldsDiffer(aTs[id], t)
                   THEN [u EXCEPT !.ToCreate = Append(@, t)]
                   ELSE u
         IN FirstLoop_M(Tail(order), pTs, aTs, u1)

RECURSIVE FirstLoop(_, _, _, _)
FirstLoop(order, pTs, aTs, u) ==
    IF order = <<>> THEN u
    ELSE LET id == Head(order)
             t == pTs[id]
             u1 == IF id \notin DOMAIN aTs
                   THEN [u EXCEPT !.ToCreate = Append(@, t)]
                   ELSE IF MutableFieldsDiffer(aTs[id], t)
                        THEN [u EXCEPT !.ToUpdate = Append(@, CarryID(t, aTs[id]))]
                        ELSE u
         IN FirstLoop(Tail(order), pTs, aTs, u1)

\* mutant: the second loop forgets the ids of the source
MirrorOnly_M(id, ids) == TRUE

MirrorOnly(id, ids) == id \notin ids

RECURSIVE SecondLoop(_, _, _, _, _)
SecondLoop(order, ids, aTs, cutoff, u) ==
    IF order = <<>> THEN u
    ELSE LET id == Head(order)
             t == aTs[id]
         IN IF MirrorOnly(id, ids)
            THEN IF ~ParseOk(t.DateTime)
                 THEN [u EXCEPT !.panicked = TRUE]
                 ELSE IF After(ParseDate(t.DateTime), cutoff)
                      THEN SecondLoop(Tail(order), ids, aTs, cutoff,
                                      [u EXCEPT !.ToDelete = Append(@, t)])
                      ELSE SecondLoop(Tail(order), ids, aTs, cutoff, u)
            ELSE SecondLoop(Tail(order), ids, aTs, cutoff, u)

\* pOrder and aOrder are the orders in which the two range loops visit the maps
updateAccount(pTs, aTs, pOrder, aOrder, clock) ==
    SecondLoop(aOrder, Range(pOrder), aTs, Cutoff(clock),
               FirstLoop(pOrder, pTs, aTs, EmptyUpdate))

\* ------------------------------------------------------------------ errors
\* An error value: where it came from, its Plaid error code if it is a Plaid
\* error, and the invocation of the action that produced it.
NoErr == [kind |-> "nil", code |-> "", call |-> 0]
NotReturned == [kind |-> "none", code |-> "", call |-> 0]
PlaidCodes == {"ITEM_LOGIN_REQUIRED", "RATE_LIMIT_EXCEEDED"}
\* what a failing TransactionsGet returns during invocation n of the action
RequestErrors(n) ==
    [kind : {"plaid"}, code : PlaidCodes, call : {n}]
    \cup {[kind |-> "transport", code |-> "", call |-> n]}
\* what Relink returns when the flow fails: a value read from linker.Errors
RelinkErrors == {[kind |-> "relink", code |-> "", call |-> 0]}
\* log.Fatal inside Relink: the process exits and Relink never returns
RelinkFatal == [kind |-> "fatal", code |-> "", call |-> 0]

\* e, _ := plaid.ToPlaidError(err); e.ErrorCode -- the zero PlaidError for nil
\* and for an error that is not a Plaid error
ErrorCode(e) == IF e.kind = "plaid" THEN e.code ELSE ""

\* mutant: every error is taken for an expired login
IsLoginRequired_M(e) == e # NoErr

\* mutant: the wrapper relinks and retries whatever the action returned
IsLoginRequired_M2(e) == TRUE

IsLoginRequired(e) == ErrorCode(e) = "ITEM_LOGIN_REQUIRED"

\* ------------------------------------------------------------------ Sync, one account
\* the maps byAccountIDbyTransactionID builds for an account: keyed by PlaidID;
\* Sync ranges over the accounts of the source, so the source map is never empty
SourceMaps ==
    UNION {{[id \in S |-> PlaidRecord(id, f[id])] : f \in [S -> PlaidSamples]} :
           S \in (SUBSET PlaidIDs) \ {{}}}
MirrorMaps ==
    UNION {{[id \in S |-> AirtableRecord(id, f[id])] : f \in [S -> AirtableSamples]} :
           S \in SUBSET PlaidIDs}

ReconcileIdle ==
    /\ plaidTs = <<>> /\ airtableTs = <<>> /\ now = [m |-> 1, d |-> 1, half |-> 0]
    /\ rpc = "idle" /\ updates = EmptyUpdate /\ idx = 1 /\ ops = <<>> /\ store = {}

LinkerIdle ==
    /\ lmode = "idle" /\ lpc = <<>> /\ gpc = <<>> /\ mu = 0
    /\ registered = <<>> /\ listening = FALSE /\ portFree = TRUE
    /\ pending = {} /\ http = <<>> /\ received = <<>> /\ lresult = <<>>
    /\ exchangeCalls = 0 /\ tokens = <<>> /\ crashed = FALSE

SitesIdle == site = "" /\ apiResults = <<>>

FetchIdle ==
    /\ SitesIdle
    /\ wpc = "idle" /\ err = NoErr /\ ret = NotReturned
    /\ actionResults = <<>> /\ relinkResults = <<>> /\ allTransactions = <<>>
    /\ srvMode = "honest" /\ srvTotal = 0 /\ pageCount = 1
    /\ transactions = <<>> /\ offset = 0 /\ total = 0 /\ requests = 0

NotStarted == [started |-> FALSE, list |-> <<>>]

ArrangeIdle ==
    /\ plaidArranged = <<>> /\ airtableArranged = <<>> /\ visited = {}
    /\ accountID = <<"acct", 0>>

AccountsIdle ==
    /\ plaidAccounts = <<>> /\ accountsTable = {} /\ existingIDs = {}
    /\ kpc = "idle" /\ ai = 1 /\ accountOps = <<>> /\ returns = <<>>

RunIdle ==
    /\ aliases = <<>> /\ arg = ""
    /\ items = <<>> /\ mpc = "idle" /\ item = 1 /\ wg = 0
    /\ worker = <<>> /\ fetched = <<>> /\ tmp = <<>> /\ transactionsMu = 0
    /\ runTransactions = <<>> /\ mirrorFetches = 0 /\ syncArgs = NotStarted
    /\ exited = ""

InitReconcile ==
    /\ plaidTs \in SourceMaps
    /\ airtableTs \in MirrorMaps
    /\ now \in Clocks
    /\ rpc = "reconcile"
    /\ updates = EmptyUpdate
    /\ idx = 1
    /\ ops = <<>>
    /\ store = Range(airtableTs)
    /\ FetchIdle
    /\ LinkerIdle
    /\ ArrangeIdle
    /\ RunIdle
    /\ AccountsIdle

\* updates := updateAccount(transactions, airtableArranged[accountID])
Reconcile ==
    /\ rpc = "reconcile"
    /\ \E pOrder \in Orders(DOMAIN plaidTs), aOrder \in Orders(DOMAIN airtableTs) :
         LET u == updateAccount(plaidTs, airtableTs, pOrder, aOrder, now)
         IN IF u.panicked
            THEN rpc' = "panicked" /\ updates' = EmptyUpdate
            ELSE rpc' = "delete" /\ updates' = u
    /\ idx' = 1
    /\ UNCHANGED <<plaidTs, airtableTs, now, ops, store, notR>>

\* what a successful call leaves in the table: Delete removes the row with the
\* record's ID, Create adds a row under the ID the table gives it, Update
\* replaces the fields of the row with the record's ID
ApplyOp(rows, op, t) ==
    CASE op = "Delete" -> {r \in rows : r.ID # t.ID}
      [] op = "Create" -> rows \cup {[t EXCEPT !.ID = <<"new", t.PlaidID[2]>>]}
      [] op = "Update" -> {r \in rows : r.ID # t.ID} \cup {t}

\* mutant: the error of a store call is dropped and the loop goes on
StoreCall_M(phase, op, list) ==
    /\ rpc = phase
    /\ idx <= Len(list)
    /\ \E ok \in BOOLEAN :
         /\ ops' = Append(ops, [op |-> op, rec |-> list[idx], ok |-> ok])
         /\ store' = IF ok THEN ApplyOp(store, op, list[idx]) ELSE store
         /\ rpc' = rpc /\ idx' = idx + 1
    /\ UNCHANGED <<plaidTs, airtableTs, now, updates, notR>>

\* one iteration of a range loop over a plan list: the store call and its result
StoreCall(phase, op, list) ==
    /\ rpc = phase
    /\ idx <= Len(list)
    /\ \E ok \in BOOLEAN :
         /\ ops' = Append(ops, [op |-> op, rec |-> list[idx], ok |-> ok])
         /\ store' = IF ok THEN ApplyOp(store, op, list[idx]) ELSE store
         /\ IF ok THEN rpc' = rpc /\ idx' = idx + 1
                  ELSE rpc' = "failed" /\ idx' = idx
    /\ UNCHANGED <<plaidTs, airtableTs, now, updates, notR>>

\* the range loop is exhausted: on to the next loop, or return nil
LoopDone(phase, list, next) ==
    /\ rpc = phase
    /\ idx > Len(list)
    /\ rpc' = next
    /\ idx' = 1
    /\ UNCHANGED <<plaidTs, airtableTs, now, updates, ops, store, notR>>

DeleteCall == StoreCall("delete", "Delete", updates.ToDelete)
DeleteDone == LoopDone("delete", updates.ToDelete, "create")
CreateCall == StoreCall("create", "Create", updates.ToCreate)
CreateDone == LoopDone("create", updates.ToCreate, "update")
\* mutant: an update is issued as a delete (and a create), as the comment says
UpdateCall_M == StoreCall("update", "Delete", updates.ToUpdate)

UpdateCall == StoreCall("update", "Update", updates.ToUpdate)
UpdateDone == LoopDone("update", updates.ToUpdate, "done")

NextReconcile ==
    \/ Reconcile
    \/ DeleteCall
    \/ DeleteDone
    \/ CreateCall
    \/ CreateDone
    \/ UpdateCall
    \/ UpdateDone

SpecReconcile == InitReconcile /\ [][NextReconcile]_vars

\* ------------------------------------------------------------------ plan keys
Keys(list) == {list[i].PlaidID : i \in DOMAIN list}
NoRepeat(list) == \A i, j \in DOMAIN list : list[i].PlaidID = list[j].PlaidID => i = j
Planned == rpc \in {"delete", "create", "update", "done", "failed"}

\* ------------------------------------------------------------------ the server
\* int32 arithmetic of the offset, at a scaled-down width that no request of a
\* terminating call reaches
Int32Half == MaxTotal + MaxCount + 1
WrapInt32(x) == ((x + Int32Half) % (2 * Int32Half)) - Int32Half

MaxRequests == MaxTotal + 2     \* the request counter stops counting here
Count1(n) == Min(n + 1, MaxRequests)

\* the page an honest server holding T records delivers: records
\* off+1 .. min(off+cnt, T), in order
HonestPage(T, off, cnt) ==
    IF off >= T \/ off < 0 THEN <<>>
    ELSE [i \in 1..Min(cnt, T - off) |-> off + i]

\* what a successful TransactionsGet may answer: the page and the total count
Responses(off, cnt) ==
    IF srvMode = "honest"
    THEN {[page |-> HonestPage(srvTotal, off, cnt), total |-> srvTotal]}
    ELSE {[page |-> [i \in 1..k |-> 0], total |-> t] : k \in 0..cnt, t \in 0..MaxTotal}

\* ------------------------------------------------------------------ AllTransactions
\* mutant: the offset advances by one record instead of one page
NextOffset_M(off, cnt) == WrapInt32(off + 1)

\* req.Options.SetOffset(*req.Options.Offset + *req.Options.Count)
NextOffset(off, cnt) == WrapInt32(off + cnt)

\* mutant: the loop also runs when the count has reached the total
MorePages_M(n, tot) == n <= tot

\* len(transactions) < int(res.TotalTransactions)
MorePages(n, tot) == n < tot

\* ------------------------------------------------------------------ the wrapper
\* mutant: the result of the retry is inspected like that of the first run
AfterAction_M(n) == "check"

\* where the wrapper goes when invocation n of the action has returned
AfterAction(n) == IF n = 1 THEN "check" ELSE "returned"

\* mutant: the action is run again whatever Relink returned
AfterRelink_M(r) == "call"

\* where the wrapper goes when Relink has returned r
AfterRelink(r) == IF r = NoErr THEN "call" ELSE "returned"

Invocation == Len(actionResults) + 1

InitFetch ==
    /\ wpc = "call"
    /\ err = NoErr
    /\ ret = NotReturned
    /\ actionResults = <<>>
    /\ relinkResults = <<>>
    /\ allTransactions = <<>>
    /\ srvMode \in {"honest", "any"}
    /\ srvTotal \in 0..MaxTotal
    /\ srvMode = "any" => srvTotal = 0
    /\ pageCount \in 1..MaxCount
    /\ transactions = <<>>
    /\ offset = 0
    /\ total = 0
    /\ requests = 0
    /\ SitesIdle
    /\ ReconcileIdle
    /\ LinkerIdle
    /\ ArrangeIdle
    /\ RunIdle
    /\ AccountsIdle

\* the action returns e to the wrapper: err = action()
ActionReturns(e) ==
    /\ actionResults' = Append(actionResults, e)
    /\ err' = e
    /\ wpc' = AfterAction(Invocation)
    /\ ret' = IF AfterAction(Invocation) = "returned" THEN e ELSE ret

\* err := action(): the action builds a fresh request (offset 0) and calls
\* AllTransactions
CallAction ==
    /\ wpc = "call"
    /\ wpc' = "first"
    /\ transactions' = <<>>
    /\ offset' = 0
    /\ total' = 0
    /\ requests' = 0
    /\ UNCHANGED <<err, ret, actionResults, relinkResults, allTransactions,
                   srvMode, srvTotal, pageCount, notF>>

\* the first TransactionsGet of AllTransactions
FirstRequest ==
    /\ wpc = "first"
    /\ requests' = Count1(requests)
    /\ \/ \E e \in RequestErrors(Invocation) :
            /\ ActionReturns(e)
            /\ UNCHANGED <<transactions, total>>
       \/ \E res \in Responses(offset, pageCount) :
            /\ transactions' = transactions \o res.page
            /\ total' = res.total
            /\ wpc' = "loop"
            /\ UNCHANGED <<err, ret, actionResults>>
    /\ UNCHANGED <<relinkResults, allTransactions, srvMode, srvTotal, pageCount,
                   offset, notF>>

\* one iteration of the loop: advance the offset, request, append
PageRequest ==
    /\ wpc = "loop"
    /\ MorePages(Len(transactions), total)
    /\ offset' = NextOffset(offset, pageCount)
    /\ requests' = Count1(requests)
    /\ \/ \E e \in RequestErrors(Invocation) :
            /\ ActionReturns(e)
            /\ UNCHANGED transactions
       \/ \E res \in Responses(offset', pageCount) :
            /\ transactions' = transactions \o res.page
            /\ UNCHANGED <<wpc, err, ret, actionResults>>
    /\ UNCHANGED <<relinkResults, allTransactions, srvMode, srvTotal, pageCount,
                   total, notF>>

\* the loop ends: AllTransactions returns the records, the action appends them
\* to the shared collection under the mutex and returns nil
FetchDone ==
    /\ wpc = "loop"
    /\ ~MorePages(Len(transactions), total)
    /\ allTransactions' = allTransactions \o transactions
    /\ ActionReturns(NoErr)
    /\ UNCHANGED <<relinkResults, srvMode, srvTotal, pageCount, transactions,
                   offset, total, requests, notF>>

\* if e.ErrorCode == "ITEM_LOGIN_REQUIRED" { ... } return err
CheckError ==
    /\ wpc = "check"
    /\ IF IsLoginRequired(err)
       THEN wpc' = "relink" /\ ret' = ret
       ELSE wpc' = "returned" /\ ret' = err
    /\ UNCHANGED <<err, actionResults, relinkResults, allTransactions, srvMode,
                   srvTotal, pageCount, transactions, offset, total, requests, notF>>

\* err = linker.Relink(ctx, item.id, port); if err != nil { return err }
Relink ==
    /\ wpc = "relink"
    /\ \E r \in {NoErr} \cup RelinkErrors :
         /\ relinkResults' = Append(relinkResults, r)
         /\ err' = r
         /\ wpc' = AfterRelink(r)
         /\ ret' = IF AfterRelink(r) = "returned" THEN r ELSE ret
    /\ UNCHANGED <<actionResults, allTransactions, srvMode, srvTotal, pageCount,
                   transactions, offset, total, requests, notF>>

\* Relink cannot create the link token: log.Fatal ends the process
RelinkExits ==
    /\ wpc = "relink"
    /\ relinkResults' = Append(relinkResults, RelinkFatal)
    /\ wpc' = "exited"
    /\ UNCHANGED <<err, ret, actionResults, allTransactions, srvMode, srvTotal,
                   pageCount, transactions, offset, total, requests, notF>>

NextFetch ==
    \/ CallAction
    \/ FirstRequest
    \/ PageRequest
    \/ FetchDone
    \/ CheckError
    \/ Relink
    \/ RelinkExits

SpecFetch == InitFetch /\ [][NextFetch]_vars

\* the requests of AllTransactions are answered and its loop keeps running
FairSpecFetch ==
    SpecFetch /\ WF_vars(FirstRequest) /\ WF_vars(PageRequest) /\ WF_vars(FetchDone)

\* ------------------------------------------------------------------ the call sites
\* the commands that wrap their Plaid call in WithRelinkOnAuthError
Sites == {"accounts", "transactions", "sync-transactions", "institution"}

\* the steps of an action after its Plaid call that can return an error
LocalSteps(s) ==
    CASE s = "accounts" -> {"SyncAccounts", "MarshalIndent"}
      [] s = "transactions" -> {"NewTransactionSerializer", "serialize"}
      [] OTHER -> {}
LocalErrors(s, n) == [kind : {"local"}, code : LocalSteps(s), call : {n}]

\* what the action of a command returns when its Plaid call returned e in
\* invocation n: accounts logs the error and returns nil, the others return it;
\* after a successful call the action may still fail in one of its own steps
SiteReturns(s, e, n) ==
    IF e # NoErr
    THEN IF s = "accounts" THEN {NoErr} ELSE {e}
    ELSE {NoErr} \cup LocalErrors(s, n)

InitSites ==
    /\ site \in Sites
    /\ apiResults = <<>>
    /\ wpc = "call"
    /\ err = NoErr
    /\ ret = NotReturned
    /\ actionResults = <<>>
    /\ relinkResults = <<>>
    /\ allTransactions = <<>>
    /\ srvMode = "honest" /\ srvTotal = 0 /\ pageCount = 1
    /\ transactions = <<>> /\ offset = 0 /\ total = 0 /\ requests = 0
    /\ ReconcileIdle
    /\ LinkerIdle
    /\ ArrangeIdle
    /\ RunIdle
    /\ AccountsIdle

\* err := action(): the Plaid call of the command, then the rest of the action
SiteAction ==
    /\ wpc = "call"
    /\ \E e \in {NoErr} \cup RequestErrors(Invocation) :
         /\ apiResults' = Append(apiResults, e)
         /\ \E r \in SiteReturns(site, e, Invocation) : ActionReturns(r)
    /\ UNCHANGED <<relinkResults, allTransactions, srvMode, srvTotal, pageCount,
                   transactions, offset, total, requests, site,
                   rvars, lvars, avars, svars, kvars>>

\* the wrapper has returned: the command logs a fatal error, or goes on
SiteEnds ==
    /\ wpc = "returned"
    /\ wpc' = IF ret = NoErr THEN "done" ELSE "fatal"
    /\ UNCHANGED <<err, ret, actionResults, relinkResults, allTransactions, srvMode,
                   srvTotal, pageCount, transactions, offset, total, requests, notF>>

NextSites ==
    \/ SiteAction
    \/ SiteEnds
    \/ CheckError
    \/ Relink
    \/ RelinkExits

SpecSites == InitSites /\ [][NextSites]_vars

\* ------------------------------------------------------------------ Linker
Callers == 1..NumCallers
Methods == {"GET", "POST", "PUT"}
\* the form field a POST carries: public_token on /link, error on /relink
Fields == {"", "v"}

Pattern(mode) == IF mode = "link" THEN "/link" ELSE "/relink"

NoSend == [ch |-> "none", val |-> ""]

\* mutant: a method that is neither GET nor POST is ignored
handleLink_M(method, field) ==
    IF method = "POST"
    THEN IF field # "" THEN [ch |-> "Results", val |-> field]
                       ELSE [ch |-> "Errors", val |-> "Empty public_token"]
    ELSE NoSend

\* the send the handler of /link attempts for a request
handleLink(method, field) ==
    CASE method = "GET" -> NoSend
      [] method = "POST" ->
            IF field # "" THEN [ch |-> "Results", val |-> field]
                          ELSE [ch |-> "Errors", val |-> "Empty public_token"]
      [] OTHER -> [ch |-> "Errors", val |-> "Invalid HTTP method"]

\* mutant: the error field of the POST is not looked at
handleRelink_M(method, field) ==
    CASE method = "GET" -> NoSend
      [] method = "POST" -> [ch |-> "RelinkResults", val |-> "true"]
      [] OTHER -> [ch |-> "Errors", val |-> "Invalid HTTP method"]

\* the send the handler of /relink attempts for a request
handleRelink(method, field) ==
    CASE method = "GET" -> NoSend
      [] method = "POST" ->
            IF field # "" THEN [ch |-> "Errors", val |-> field]
                          ELSE [ch |-> "RelinkResults", val |-> "true"]
      [] OTHER -> [ch |-> "Errors", val |-> "Invalid HTTP method"]

Handler(pat, method, field) ==
    IF pat = "/link" THEN handleLink(method, field) ELSE handleRelink(method, field)

\* the channels the select of link / relink receives from
SelectChans(mode) ==
    IF mode = "link" THEN {"Errors", "Results"} ELSE {"Errors", "RelinkResults"}

\* mutant: Lock does not wait for the holder
CanLock_M(m) == TRUE

\* l.mu.Lock() goes through when the mutex is free
CanLock(m) == m = 0

\* mutant: the public token is exchanged whatever the select received
LinkAfterReceive_M(p) == "exchange"

\* link: case err := <-l.Errors returns, case publicToken := <-l.Results exchanges
LinkAfterReceive(p) == IF p.ch = "Errors" THEN "returned" ELSE "exchange"

NoResult == [kind |-> "none", val |-> <<>>]
NilResult == [kind |-> "nil", val |-> <<>>]
ErrResult(v) == [kind |-> "error", val |-> <<v>>]
PairResult(resp) == [kind |-> "pair", val |-> <<resp.ItemId, resp.AccessToken>>]

\* mutant: relink returns nil whichever channel delivered
RelinkReturn_M(p) == NilResult

\* relink: case err := <-l.Errors returns err, case <-l.RelinkResults returns nil
RelinkReturn(p) == IF p.ch = "Errors" THEN ErrResult(p.val) ELSE NilResult

\* the response of ItemPublicTokenExchange for a public token
ExchangeResponse(publicToken) ==
    [ItemId |-> <<"item", publicToken>>, AccessToken |-> <<"access", publicToken>>]

InitialTokens(mode) ==
    IF mode = "relink" THEN [c \in Callers |-> <<"access", "old">>] ELSE <<>>

InitLinker ==
    /\ lmode \in {"link", "relink"}
    /\ lpc = IF lmode = "link" THEN [c \in {1} |-> "token"] ELSE [c \in Callers |-> "call"]
    /\ gpc = [c \in DOMAIN lpc |-> "none"]
    /\ mu = 0
    /\ registered = <<>>
    /\ listening = FALSE
    /\ portFree \in BOOLEAN
    /\ pending = {}
    /\ http = <<>>
    /\ received = [c \in DOMAIN lpc |-> <<>>]
    /\ lresult = [c \in DOMAIN lpc |-> NoResult]
    /\ exchangeCalls = <<>>
    /\ tokens = InitialTokens(lmode)
    /\ crashed = FALSE
    /\ ReconcileIdle
    /\ FetchIdle
    /\ ArrangeIdle
    /\ RunIdle
    /\ AccountsIdle

\* Relink: l.mu.Lock()
Lock(c) ==
    /\ ~crashed
    /\ lpc[c] = "call"
    /\ CanLock(mu)
    /\ mu' = c
    /\ lpc' = [lpc EXCEPT ![c] = "token"]
    /\ UNCHANGED <<lmode, gpc, registered, listening, portFree, pending, http,
                   received, lresult, exchangeCalls, tokens, crashed, notL>>

\* LinkTokenCreate succeeds: on to link() / relink()
LinkTokenCreated(c) ==
    /\ ~crashed
    /\ lpc[c] = "token"
    /\ lpc' = [lpc EXCEPT ![c] = "spawn"]
    /\ UNCHANGED <<lmode, gpc, mu, registered, listening, portFree, pending, http,
                   received, lresult, exchangeCalls, tokens, crashed, notL>>

\* LinkTokenCreate fails: log.Fatal(err) ends the process
LinkTokenFatal(c) ==
    /\ ~crashed
    /\ lpc[c] = "token"
    /\ crashed' = TRUE
    /\ UNCHANGED <<lmode, lpc, gpc, mu, registered, listening, portFree, pending,
                   http, received, lresult, exchangeCalls, tokens, notL>>

\* go func() { ... }(); open.Run(url); the caller reaches its select
Spawn(c) ==
    /\ ~crashed
    /\ lpc[c] = "spawn"
    /\ gpc' = [gpc EXCEPT ![c] = "register"]
    /\ lpc' = [lpc EXCEPT ![c] = "wait"]
    /\ UNCHANGED <<lmode, mu, registered, listening, portFree, pending, http,
                   received, lresult, exchangeCalls, tokens, crashed, notL>>

\* the goroutine: http.HandleFunc(pattern, handler); a pattern registered
\* before makes ServeMux panic, which ends the process
Register(c) ==
    /\ ~crashed
    /\ gpc[c] = "register"
    /\ IF Pattern(lmode) \in DOMAIN registered
       THEN crashed' = TRUE /\ UNCHANGED <<registered, gpc>>
       ELSE /\ registered' = [q \in {Pattern(lmode)} |-> c]
            /\ gpc' = [gpc EXCEPT ![c] = "listen"]
            /\ UNCHANGED crashed
    /\ UNCHANGED <<lmode, lpc, mu, listening, portFree, pending, http, received,
                   lresult, exchangeCalls, tokens, notL>>

\* the goroutine: err := http.ListenAndServe(...); if err != nil { l.Errors <- err }
Listen(c) ==
    /\ ~crashed
    /\ gpc[c] = "listen"
    /\ IF portFree /\ ~listening
       THEN /\ listening' = TRUE
            /\ gpc' = [gpc EXCEPT ![c] = "serving"]
            /\ UNCHANGED pending
       ELSE /\ pending' = pending \cup {[ch |-> "Errors", val |-> "bind", owner |-> c, req |-> 0]}
            /\ gpc' = [gpc EXCEPT ![c] = "blocked"]
            /\ UNCHANGED listening
    /\ UNCHANGED <<lmode, lpc, mu, registered, portFree, http, received, lresult,
                   exchangeCalls, tokens, crashed, notL>>

\* a request reaches the server: its handler runs up to the channel send
HttpRequest ==
    /\ ~crashed
    /\ listening
    /\ \A c \in DOMAIN lpc : lpc[c] # "saved"     \* the link command has not ended
    /\ Len(http) < MaxHttp
    /\ \E pat \in DOMAIN registered, method \in Methods, field \in Fields :
         LET send == Handler(pat, method, field)
             n == Len(http) + 1
         IN /\ http' = Append(http, [path |-> pat, method |-> method, field |-> field,
                                     ch |-> send.ch])
            /\ pending' = IF send.ch = "none" THEN pending
                          ELSE pending \cup {[ch |-> send.ch, val |-> send.val,
                                              owner |-> registered[pat], req |-> n]}
    /\ UNCHANGED <<lmode, lpc, gpc, mu, registered, listening, portFree, received,
                   lresult, exchangeCalls, tokens, crashed, notL>>

\* the select of link receives one value
LinkReceive(c) ==
    /\ ~crashed
    /\ lmode = "link"
    /\ lpc[c] = "wait"
    /\ \E p \in pending :
         /\ p.ch \in SelectChans(lmode)
         /\ pending' = pending \ {p}
         /\ received' = [received EXCEPT ![c] = Append(@, p)]
         /\ gpc' = IF p.req = 0 THEN [gpc EXCEPT ![p.owner] = "done"] ELSE gpc
         /\ lpc' = [lpc EXCEPT ![c] = LinkAfterReceive(p)]
         /\ lresult' = IF LinkAfterReceive(p) = "returned"
                       THEN [lresult EXCEPT ![c] = ErrResult(p.val)] ELSE lresult
    /\ UNCHANGED <<lmode, mu, registered, listening, portFree, http, exchangeCalls,
                   tokens, crashed, notL>>

\* res, err := l.exchange(ctx, publicToken): the pair, or the error
Exchange(c) ==
    /\ ~crashed
    /\ lpc[c] = "exchange"
    /\ LET tok == received[c][Len(received[c])].val
       IN \E ok \in BOOLEAN :
            /\ exchangeCalls' = Append(exchangeCalls, [token |-> tok, ok |-> ok])
            /\ lresult' = [lresult EXCEPT ![c] =
                              IF ok THEN PairResult(ExchangeResponse(tok))
                                    ELSE ErrResult("exchange")]
    /\ lpc' = [lpc EXCEPT ![c] = "returned"]
    /\ UNCHANGED <<lmode, gpc, mu, registered, listening, portFree, pending, http,
                   received, tokens, crashed, notL>>

\* the link command: data.Tokens[tokenPair.ItemID] = tokenPair.AccessToken, or
\* log.Fatalln("Cannot link", err)
SaveToken(c) ==
    /\ ~crashed
    /\ lmode = "link"
    /\ lpc[c] = "returned"
    /\ IF lresult[c].kind = "pair"
       THEN /\ tokens' = [i \in DOMAIN tokens \cup {lresult[c].val[1]} |->
                             IF i = lresult[c].val[1] THEN lresult[c].val[2] ELSE tokens[i]]
            /\ lpc' = [lpc EXCEPT ![c] = "saved"]
            /\ UNCHANGED crashed
       ELSE crashed' = TRUE /\ UNCHANGED <<tokens, lpc>>
    /\ UNCHANGED <<lmode, gpc, mu, registered, listening, portFree, pending, http,
                   received, lresult, exchangeCalls, notL>>

\* the select of relink receives one value; Relink returns and the deferred
\* l.mu.Unlock() runs
RelinkReceive(c) ==
    /\ ~crashed
    /\ lmode = "relink"
    /\ lpc[c] = "wait"
    /\ \E p \in pending :
         /\ p.ch \in SelectChans(lmode)
         /\ pending' = pending \ {p}
         /\ received' = [received EXCEPT ![c] = Append(@, p)]
         /\ gpc' = IF p.req = 0 THEN [gpc EXCEPT ![p.owner] = "done"] ELSE gpc
         /\ lresult' = [lresult EXCEPT ![c] = RelinkReturn(p)]
    /\ lpc' = [lpc EXCEPT ![c] = "returned"]
    /\ mu' = 0
    /\ UNCHANGED <<lmode, registered, listening, portFree, http, exchangeCalls,
                   tokens, crashed, notL>>

NextLinker ==
    \/ \E c \in DOMAIN lpc : Lock(c)
    \/ \E c \in DOMAIN lpc : LinkTokenCreated(c)
    \/ \E c \in DOMAIN lpc : LinkTokenFatal(c)
    \/ \E c \in DOMAIN lpc : Spawn(c)
    \/ \E c \in DOMAIN lpc : Register(c)
    \/ \E c \in DOMAIN lpc : Listen(c)
    \/ HttpRequest
    \/ \E c \in DOMAIN lpc : LinkReceive(c)
    \/ \E c \in DOMAIN lpc : Exchange(c)
    \/ \E c \in DOMAIN lpc : SaveToken(c)
    \/ \E c \in DOMAIN lpc : RelinkReceive(c)

SpecLinker == InitLinker /\ [][NextLinker]_vars

\* ------------------------------------------------------------------ Sync, all accounts
AcctID(a) == <<"acct", a>>
MapGet(m, k) == IF k \in DOMAIN m THEN m[k] ELSE <<>>   \* a missing key reads as the nil map

\* ret[t.Fields.AccountID][t.Fields.PlaidID] = t, in list order: the last wins
ByAccount(ts) ==
    [a \in {ts[i].AccountID : i \in DOMAIN ts} |->
        LET own == {i \in DOMAIN ts : ts[i].AccountID = a}
        IN [id \in {ts[i].PlaidID : i \in own} |->
               ts[CHOOSE i \in own : /\ ts[i].PlaidID = id
                                     /\ \A j \in own : ts[j].PlaidID = id => j <= i]]]

\* the records of account a in the feed and in the store: ids 3a-2 .. 3a
SourceRecord(a, j) ==
    PlaidRecord(TxID(3 * a - 3 + j),
                [Pending |-> TRUE, Location |-> [Address |-> <<"x">>, City |-> <<"y">>],
                 Amount |-> 1, Date |-> <<3, 10>>])
        @@ [AccountID |-> AcctID(a)]
MirrorRecord(a, j) ==
    AirtableRecord(TxID(3 * a - 3 + j),
                   [Pending |-> FALSE, Address |-> <<"x", " ", "y">>, Amount |-> 1,
                    DateTime |-> <<3, 10>>])
        @@ [AccountID |-> AcctID(a)]
\* a row whose date does not parse (Feb 30)
BadDateRecord(a, j) == [MirrorRecord(a, j) EXCEPT !.DateTime = <<2, 30>>]
SourceCases(a) == {<<>>, <<SourceRecord(a, 1)>>, <<SourceRecord(a, 1), SourceRecord(a, 2)>>}
MirrorCases(a) ==
    {<<>>, <<MirrorRecord(a, 1)>>, <<MirrorRecord(a, 3)>>,
     <<MirrorRecord(a, 1), MirrorRecord(a, 3)>>,
     <<BadDateRecord(a, 1)>>, <<BadDateRecord(a, 3)>>}

\* the two lists Sync is called with, for n accounts
RECURSIVE SyncSources(_)
SyncSources(n) ==
    IF n = 0 THEN {<<>>}
    ELSE {l \o c : l \in SyncSources(n - 1), c \in SourceCases(n)}
RECURSIVE SyncMirrors(_)
SyncMirrors(n) ==
    IF n = 0 THEN {<<>>}
    ELSE {l \o c : l \in SyncMirrors(n - 1), c \in MirrorCases(n)}

InitSync ==
    /\ \E ts \in SyncSources(NumAccounts), as \in SyncMirrors(NumAccounts) :
         /\ plaidArranged = ByAccount(ts)
         /\ airtableArranged = ByAccount(as)
         /\ store = Range(as)
    /\ visited = {}
    /\ accountID = AcctID(0)
    /\ plaidTs = <<>> /\ airtableTs = <<>>
    /\ now = [m |-> 3, d |-> 15, half |-> 0]
    /\ rpc = "range"
    /\ updates = EmptyUpdate
    /\ idx = 1
    /\ ops = <<>>
    /\ FetchIdle
    /\ LinkerIdle
    /\ RunIdle
    /\ AccountsIdle

\* mutant: the loop ranges over the accounts of both sides
AccountsOf_M(pa, aa) == DOMAIN pa \cup DOMAIN aa

\* the keys the loop of Sync ranges over: the accounts of the source
AccountsOf(pa, aa) == DOMAIN pa

\* for accountID, transactions := range plaidArranged: the next key, in map order
NextAccount ==
    /\ rpc = "range"
    /\ \E a \in AccountsOf(plaidArranged, airtableArranged) \ visited :
         /\ accountID' = a
         /\ visited' = visited \cup {a}
         /\ plaidTs' = MapGet(plaidArranged, a)
         /\ airtableTs' = MapGet(airtableArranged, a)
    /\ rpc' = "reconcile"
    /\ UNCHANGED <<now, updates, idx, ops, store, plaidArranged, airtableArranged,
                   fvars, lvars, svars, cvars, kvars>>

\* the body of the range loop ends: back to the loop head
AccountDone ==
    /\ rpc = "done"
    /\ accountID \in visited
    /\ rpc' = "range"
    /\ UNCHANGED <<plaidTs, airtableTs, now, updates, idx, ops, store, notR>>

\* every account was taken: return nil
SyncReturn ==
    /\ rpc = "range"
    /\ visited = AccountsOf(plaidArranged, airtableArranged)
    /\ rpc' = "returned"
    /\ UNCHANGED <<plaidTs, airtableTs, now, updates, idx, ops, store, notR>>

NextSync ==
    \/ NextAccount
    \/ Reconcile
    \/ DeleteCall
    \/ DeleteDone
    \/ CreateCall
    \/ CreateDone
    \/ UpdateCall
    \/ UpdateDone
    \/ AccountDone
    \/ SyncReturn

SpecSync == InitSync /\ [][NextSync]_vars

\* ------------------------------------------------------------------ sync-transactions
Sandbox == "sandbox"    \* the item id the spawn loop skips
ItemIDs == {Sandbox, "bank"}
Workers == DOMAIN items

\* what AllTransactions may return to a worker's action
RunLists == {<<>>, <<TxID(1)>>, <<TxID(1), TxID(2)>>}
NoFetch == [ok |-> FALSE, list |-> <<>>]

\* if item.id == "7jKq..." { continue }
Skipped(id) == id = Sandbox

\* mutant: Lock does not wait for the holder
MutexFree_M(m) == TRUE

\* transactionsMu.Lock() goes through when nobody holds the mutex
MutexFree(m) == m = 0

\* mutant: the command goes from the spawn loop straight to wg.Wait()
AfterSpawnLoop_M == "wait"

\* what follows the spawn loop: FetchAirtableTransactions
AfterSpawnLoop == "mirror"

\* where a worker goes when invocation n of its action has returned error e
WorkerAfterError(n, e) ==
    IF AfterAction(n) = "check" /\ IsLoginRequired(e) THEN "relink" ELSE "finish"

\* where a worker goes when Relink has returned r
WorkerAfterRelink(r) == IF AfterRelink(r) = "call" THEN "action2" ELSE "finish"

Running == exited = ""

\* the aliases a data file may hold, and what the command may be given
AliasNames == {ToString(k) : k \in 1..NumItems}
AliasMaps == UNION {[S -> ItemIDs] : S \in SUBSET AliasNames}
Args == {"all"} \cup AliasNames

\* mutant: the ok of the lookup is not looked at
Lookup_M(al, a) == [id |-> IF a \in DOMAIN al THEN al[a] ELSE "", ok |-> TRUE]

\* itemID, ok := data.Aliases[itemOrAlias]
Lookup(al, a) ==
    IF a \in DOMAIN al THEN [id |-> al[a], ok |-> TRUE] ELSE [id |-> "", ok |-> FALSE]

InitRun ==
    /\ aliases \in AliasMaps
    /\ arg \in Args
    /\ items = <<>>
    /\ mpc = "resolve"
    /\ item = 1
    /\ wg = 0
    /\ worker = <<>>
    /\ fetched = <<>>
    /\ tmp = <<>>
    /\ transactionsMu = 0
    /\ runTransactions = <<>>
    /\ mirrorFetches = 0
    /\ syncArgs = NotStarted
    /\ exited = ""
    /\ ReconcileIdle
    /\ FetchIdle
    /\ LinkerIdle
    /\ ArrangeIdle
    /\ AccountsIdle

\* the items list is built; the workers' slots are those of its entries
ItemsBuilt(list) ==
    /\ items' = list
    /\ worker' = [i \in DOMAIN list |-> "none"]
    /\ fetched' = [i \in DOMAIN list |-> NoFetch]
    /\ tmp' = [i \in DOMAIN list |-> <<>>]

\* itemOrAlias == "all": every alias of the data file, in map order
ResolveAll ==
    /\ Running /\ mpc = "resolve"
    /\ arg = "all"
    /\ \E o \in Orders(DOMAIN aliases) :
         ItemsBuilt([i \in DOMAIN o |-> aliases[o[i]]])
    /\ mpc' = "loop"
    /\ UNCHANGED <<item, wg, transactionsMu, runTransactions, mirrorFetches,
                   syncArgs, exited, notS>>

\* one alias: its item, or panic("Unknown alias")
ResolveAlias ==
    /\ Running /\ mpc = "resolve"
    /\ arg # "all"
    /\ IF Lookup(aliases, arg).ok
       THEN /\ ItemsBuilt(<<Lookup(aliases, arg).id>>)
            /\ mpc' = "loop"
            /\ exited' = exited
       ELSE /\ mpc' = "fatal"
            /\ exited' = "alias"
            /\ UNCHANGED <<items, worker, fetched, tmp>>
    /\ UNCHANGED <<item, wg, transactionsMu, runTransactions, mirrorFetches,
                   syncArgs, notS>>

\* the sandbox item: continue
Skip ==
    /\ Running /\ mpc = "loop" /\ item <= Len(items)
    /\ Skipped(items[item])
    /\ item' = item + 1
    /\ UNCHANGED <<items, mpc, wg, worker, fetched, tmp, transactionsMu,
                   runTransactions, mirrorFetches, syncArgs, exited, notS>>

\* wg.Add(1); go func(item idAndAlias) { ... }(item)
Spawn_Worker ==
    /\ Running /\ mpc = "loop" /\ item <= Len(items)
    /\ ~Skipped(items[item])
    /\ wg' = wg + 1
    /\ worker' = [worker EXCEPT ![item] = "action1"]
    /\ item' = item + 1
    /\ UNCHANGED <<items, mpc, fetched, tmp, transactionsMu, runTransactions,
                   mirrorFetches, syncArgs, exited, notS>>

\* the range over items is exhausted
SpawnLoopDone ==
    /\ Running /\ mpc = "loop" /\ item > Len(items)
    /\ mpc' = AfterSpawnLoop
    /\ UNCHANGED <<items, item, wg, worker, fetched, tmp, transactionsMu,
                   runTransactions, mirrorFetches, syncArgs, exited, notS>>

\* airtableTransactions, err := FetchAirtableTransactions(); log.Fatalln on error
FetchMirror ==
    /\ Running /\ mpc = "mirror"
    /\ mirrorFetches' = mirrorFetches + 1
    /\ \E ok \in BOOLEAN :
         IF ok THEN mpc' = "wait" /\ exited' = exited
               ELSE mpc' = "fatal" /\ exited' = "mirror"
    /\ UNCHANGED <<items, item, wg, worker, fetched, tmp, transactionsMu,
                   runTransactions, syncArgs, notS>>

\* wg.Wait() returns when the counter is zero
Wait ==
    /\ Running /\ mpc = "wait"
    /\ wg = 0
    /\ mpc' = "sync"
    /\ UNCHANGED <<items, item, wg, worker, fetched, tmp, transactionsMu,
                   runTransactions, mirrorFetches, syncArgs, exited, notS>>

\* err = Sync(allTransactions, airtableTransactions)
CallSync ==
    /\ Running /\ mpc = "sync"
    /\ syncArgs' = [started |-> TRUE, list |-> runTransactions]
    /\ mpc' = "syncing"
    /\ UNCHANGED <<items, item, wg, worker, fetched, tmp, transactionsMu,
                   runTransactions, mirrorFetches, exited, notS>>

\* Sync returns: nil ends the command, an error is fatal
SyncReturns ==
    /\ Running /\ mpc = "syncing"
    /\ \E ok \in BOOLEAN :
         IF ok THEN mpc' = "done" /\ exited' = exited
               ELSE mpc' = "fatal" /\ exited' = "sync"
    /\ UNCHANGED <<items, item, wg, worker, fetched, tmp, transactionsMu,
                   runTransactions, mirrorFetches, syncArgs, notS>>

\* transactions, err := AllTransactions(ctx, req, client) in invocation n
Fetch(i, n) ==
    /\ Running /\ worker[i] = IF n = 1 THEN "action1" ELSE "action2"
    /\ \/ \E e \in RequestErrors(n) :
            /\ worker' = [worker EXCEPT ![i] = WorkerAfterError(n, e)]
            /\ UNCHANGED fetched
       \/ \E l \in RunLists :
            /\ fetched' = [fetched EXCEPT ![i] = [ok |-> TRUE, list |-> l]]
            /\ worker' = [worker EXCEPT ![i] = "lock"]
    /\ UNCHANGED <<items, mpc, item, wg, tmp, transactionsMu, runTransactions,
                   mirrorFetches, syncArgs, exited, notS>>

\* err = linker.Relink(ctx, item.id, port) returns nil or an error
WorkerRelink(i) ==
    /\ Running /\ worker[i] = "relink"
    /\ \E r \in {NoErr} \cup RelinkErrors :
         worker' = [worker EXCEPT ![i] = WorkerAfterRelink(r)]
    /\ UNCHANGED <<items, mpc, item, wg, fetched, tmp, transactionsMu,
                   runTransactions, mirrorFetches, syncArgs, exited, notS>>

\* Relink ends in log.Fatal (no link token) or its goroutine panics in
\* http.HandleFunc (the pattern is already registered): the process ends
WorkerRelinkExits(i) ==
    /\ Running /\ worker[i] = "relink"
    /\ worker' = [worker EXCEPT ![i] = "fatal"]
    /\ exited' = "relink"
    /\ UNCHANGED <<items, mpc, item, wg, fetched, tmp, transactionsMu,
                   runTransactions, mirrorFetches, syncArgs, notS>>

\* transactionsMu.Lock()
LockTransactions(i) ==
    /\ Running /\ worker[i] = "lock"
    /\ MutexFree(transactionsMu)
    /\ transactionsMu' = i
    /\ worker' = [worker EXCEPT ![i] = "read"]
    /\ UNCHANGED <<items, mpc, item, wg, fetched, tmp, runTransactions,
                   mirrorFetches, syncArgs, exited, notS>>

\* append(allTransactions, transactions...): the slice is read ...
AppendRead(i) ==
    /\ Running /\ worker[i] = "read"
    /\ tmp' = [tmp EXCEPT ![i] = runTransactions]
    /\ worker' = [worker EXCEPT ![i] = "write"]
    /\ UNCHANGED <<items, mpc, item, wg, fetched, transactionsMu, runTransactions,
                   mirrorFetches, syncArgs, exited, notS>>

\* ... and the grown slice is stored back
AppendWrite(i) ==
    /\ Running /\ worker[i] = "write"
    /\ runTransactions' = tmp[i] \o fetched[i].list
    /\ worker' = [worker EXCEPT ![i] = "unlock"]
    /\ UNCHANGED <<items, mpc, item, wg, fetched, tmp, transactionsMu,
                   mirrorFetches, syncArgs, exited, notS>>

\* transactionsMu.Unlock(); return nil
UnlockTransactions(i) ==
    /\ Running /\ worker[i] = "unlock"
    /\ transactionsMu' = 0
    /\ worker' = [worker EXCEPT ![i] = "finish"]
    /\ UNCHANGED <<items, mpc, item, wg, fetched, tmp, runTransactions,
                   mirrorFetches, syncArgs, exited, notS>>

\* the wrapper has returned (an error is logged); the deferred wg.Done() runs
WorkerDone(i) ==
    /\ Running /\ worker[i] = "finish"
    /\ wg' = wg - 1
    /\ worker' = [worker EXCEPT ![i] = "done"]
    /\ UNCHANGED <<items, mpc, item, fetched, tmp, transactionsMu, runTransactions,
                   mirrorFetches, syncArgs, exited, notS>>

NextRun ==
    \/ ResolveAll
    \/ ResolveAlias
    \/ Skip
    \/ Spawn_Worker
    \/ SpawnLoopDone
    \/ FetchMirror
    \/ Wait
    \/ CallSync
    \/ SyncReturns
    \/ \E i \in Workers, n \in 1..2 : Fetch(i, n)
    \/ \E i \in Workers : WorkerRelink(i)
    \/ \E i \in Workers : WorkerRelinkExits(i)
    \/ \E i \in Workers : LockTransactions(i)
    \/ \E i \in Workers : AppendRead(i)
    \/ \E i \in Workers : AppendWrite(i)
    \/ \E i \in Workers : UnlockTransactions(i)
    \/ \E i \in Workers : WorkerDone(i)

SpecRun == InitRun /\ [][NextRun]_vars

\* ------------------------------------------------------------------ Sync, delete+create variant
\* The variant of airtable_transactions.go: its AccountUpdate has ToCreate and
\* ToDelete only, and its records have no address (the field is carried here
\* and never read, so that both variants can be given the same maps).
OldEmptyUpdate == [ToCreate |-> <<>>, ToDelete |-> <<>>]

RECURSIVE OldFirstLoop_M(_, _, _, _)
\* mutant: a changed record is created and the row it replaces is left in place
OldFirstLoop_M(order, pTs, aTs, u) ==
    IF order = <<>> THEN u
    ELSE LET id == Head(order)
             t == pTs[id]
             u1 == IF id \notin DOMAIN aTs \/ aTs[id].Pending # t.Pending
                   THEN [u EXCEPT !.ToCreate = Append(@, t)]
                   ELSE u
         IN OldFirstLoop_M(Tail(order), pTs, aTs, u1)

RECURSIVE OldFirstLoop(_, _, _, _)
\* for id, t := range plaidTs: t is a copy, so ToCreate keeps the source's ID
\* and only the record appended to ToDelete gets existing.ID
OldFirstLoop(order, pTs, aTs, u) ==
    IF order = <<>> THEN u
    ELSE LET id == Head(order)
             t == pTs[id]
             u1 == IF id \notin DOMAIN aTs
                   THEN [u EXCEPT !.ToCreate = Append(@, t)]
                   ELSE IF aTs[id].Pending # t.Pending
                        THEN [u EXCEPT !.ToCreate = Append(@, t),
                                       !.ToDelete = Append(@, [t EXCEPT !.ID = aTs[id].ID])]
                        ELSE u
         IN OldFirstLoop(Tail(order), pTs, aTs, u1)

RECURSIVE OldSecondLoop(_, _, _, _)
\* for id, t := range airtableTs: every id the first loop did not see
OldSecondLoop(order, ids, aTs, u) ==
    IF order = <<>> THEN u
    ELSE LET id == Head(order)
         IN OldSecondLoop(Tail(order), ids, aTs,
                          IF id \notin ids THEN [u EXCEPT !.ToDelete = Append(@, aTs[id])]
                                           ELSE u)

OldUpdateAccount(pTs, aTs, pOrder, aOrder) ==
    OldSecondLoop(aOrder, Range(pOrder), aTs, OldFirstLoop(pOrder, pTs, aTs, OldEmptyUpdate))

\* one iteration of the account loop of Sync; the clock is not read
InitOld ==
    /\ plaidTs \in SourceMaps
    /\ airtableTs \in MirrorMaps
    /\ now = [m |-> 1, d |-> 1, half |-> 0]
    /\ rpc = "reconcile"
    /\ updates = OldEmptyUpdate
    /\ idx = 1
    /\ ops = <<>>
    /\ store = Range(airtableTs)
    /\ FetchIdle
    /\ LinkerIdle
    /\ ArrangeIdle
    /\ RunIdle
    /\ AccountsIdle

\* updates := updateAccount(transactions, airtableArranged[accountID])
OldReconcile ==
    /\ rpc = "reconcile"
    /\ \E pOrder \in Orders(DOMAIN plaidTs), aOrder \in Orders(DOMAIN airtableTs) :
         updates' = OldUpdateAccount(plaidTs, airtableTs, pOrder, aOrder)
    /\ rpc' = "delete"
    /\ idx' = 1
    /\ UNCHANGED <<plaidTs, airtableTs, now, ops, store, notR>>

\* "Update is delete + create": the loop over ToDelete, then the loop over ToCreate
OldDeleteCall == StoreCall("delete", "Delete", updates.ToDelete)
OldDeleteDone == LoopDone("delete", updates.ToDelete, "create")
OldCreateCall == StoreCall("create", "Create", updates.ToCreate)
OldCreateDone == LoopDone("create", updates.ToCreate, "done")

NextOld ==
    \/ OldReconcile
    \/ OldDeleteCall
    \/ OldDeleteDone
    \/ OldCreateCall
    \/ OldCreateDone

SpecOld == InitOld /\ [][NextOld]_vars

\* ------------------------------------------------------------------ SyncAccounts
\* plaid.AccountBase values: OfficialName is nil or empty for some accounts
PlaidAccounts ==
    [AccountId : {AcctID(a) : a \in 1..NumAccounts}, Name : {"name"},
     OfficialName : {"", "official"}, Mask : {"0000"}]
\* the lists SyncAccounts may be called with
AccountLists == UNION {[1..n -> PlaidAccounts] : n \in 0..NumAccounts}
\* the tables it may find: at most one row per account, under a name of its own
StoredAccount(a) ==
    [ID |-> RecID(a), AccountID |-> AcctID(a), Name |-> "stored", Mask |-> "0000"]
AccountTables == {{StoredAccount(a) : a \in S} : S \in SUBSET (1..NumAccounts)}

\* name := val(a.OfficialName); if name == "" { name = a.Name }
AccountRecordOf(a) ==
    [ID |-> <<>>, AccountID |-> a.AccountId,
     Name |-> IF a.OfficialName = "" THEN a.Name ELSE a.OfficialName,
     Mask |-> a.Mask]

TableIDs(rows) == {r.AccountID : r \in rows}
CallNo == Len(returns) + 1

InitAccounts ==
    /\ \E l \in AccountLists : plaidAccounts = [i \in DOMAIN l |-> AccountRecordOf(l[i])]
    /\ accountsTable \in AccountTables
    /\ existingIDs = {}
    /\ kpc = "list"
    /\ ai = 1
    /\ accountOps = <<>>
    /\ returns = <<>>
    /\ ReconcileIdle
    /\ FetchIdle
    /\ LinkerIdle
    /\ ArrangeIdle
    /\ RunIdle

\* accountsTable.List: an error is returned at once; else existingIDs is filled
ListAccounts ==
    /\ kpc = "list"
    /\ \E ok \in BOOLEAN :
         IF ok THEN /\ existingIDs' = TableIDs(accountsTable)
                    /\ kpc' = "loop"
                    /\ returns' = returns
               ELSE /\ existingIDs' = existingIDs
                    /\ kpc' = "returned"
                    /\ returns' = Append(returns, "error")
    /\ ai' = 1
    /\ UNCHANGED <<plaidAccounts, accountsTable, accountOps, rvars, fvars, lvars, avars,
                   svars, cvars>>

\* mutant: the lookup in existingIDs never finds the id
Existing_M(id, ids) == FALSE

\* _, ok := existingIDs[account.Fields.AccountID]
Existing(id, ids) == id \in ids

\* if ok { continue }
SkipAccount ==
    /\ kpc = "loop"
    /\ ai <= Len(plaidAccounts)
    /\ Existing(plaidAccounts[ai].AccountID, existingIDs)
    /\ ai' = ai + 1
    /\ UNCHANGED <<plaidAccounts, accountsTable, existingIDs, kpc, accountOps, returns,
                   rvars, fvars, lvars, avars, svars, cvars>>

\* accountsTable.Create(&account): the row is added, or the error is returned
CreateAccount ==
    /\ kpc = "loop"
    /\ ai <= Len(plaidAccounts)
    /\ ~Existing(plaidAccounts[ai].AccountID, existingIDs)
    /\ \E ok \in BOOLEAN :
         /\ accountOps' = Append(accountOps,
                [call |-> CallNo, op |-> "Create", rec |-> plaidAccounts[ai], ok |-> ok,
                 listed |-> existingIDs, had |-> TableIDs(accountsTable)])
         /\ IF ok THEN /\ accountsTable' = accountsTable \cup
                            {[plaidAccounts[ai] EXCEPT !.ID = <<"new", Len(accountOps)>>]}
                       /\ ai' = ai + 1
                       /\ kpc' = kpc
                       /\ returns' = returns
                  ELSE /\ accountsTable' = accountsTable
                       /\ ai' = ai
                       /\ kpc' = "returned"
                       /\ returns' = Append(returns, "error")
    /\ UNCHANGED <<plaidAccounts, existingIDs, rvars, fvars, lvars, avars, svars, cvars>>

\* the loop is exhausted: return nil
AccountsReturn ==
    /\ kpc = "loop"
    /\ ai > Len(plaidAccounts)
    /\ kpc' = "returned"
    /\ returns' = Append(returns, "nil")
    /\ UNCHANGED <<plaidAccounts, accountsTable, existingIDs, ai, accountOps,
                   rvars, fvars, lvars, avars, svars, cvars>>

\* SyncAccounts is called again with the same accounts (the item has a second
\* alias, or the command is run again): a new client, a new existingIDs
CallAgain ==
    /\ kpc = "returned"
    /\ Len(returns) < MaxCalls
    /\ kpc' = "list"
    /\ existingIDs' = {}
    /\ ai' = 1
    /\ UNCHANGED <<plaidAccounts, accountsTable, accountOps, returns,
                   rvars, fvars, lvars, avars, svars, cvars>>

NextAccounts ==
    \/ ListAccounts
    \/ SkipAccount
    \/ CreateAccount
    \/ AccountsReturn
    \/ CallAgain

SpecAccounts == InitAccounts /\ [][NextAccounts]_vars

\* ------------------------------------------------------------------ claims C1..C5
Both == DOMAIN plaidTs \cap DOMAIN airtableTs
SourceOnly == DOMAIN plaidTs \ DOMAIN airtableTs
MirrorOnlyKeys == DOMAIN airtableTs \ DOMAIN plaidTs

\* C1: in the plan updateAccount returns, no key is in two of ToCreate,
\* ToUpdate and ToDelete, and no key is twice in one of them.
Thm_C1 ==
    Planned =>
        /\ Keys(updates.ToCreate) \cap Keys(updates.ToUpdate) = {}
        /\ Keys(updates.ToCreate) \cap Keys(updates.ToDelete) = {}
        /\ Keys(updates.ToUpdate) \cap Keys(updates.ToDelete) = {}
        /\ NoRepeat(updates.ToCreate)
        /\ NoRepeat(updates.ToUpdate)
        /\ NoRepeat(updates.ToDelete)

\* a returned plan with an update and a deletion
Wit_C1 == Planned /\ updates.ToUpdate # <<>> /\ updates.ToDelete # <<>>

\* C2: a record of the mirror that the source lacks is in ToDelete exactly when
\* its date is after now minus one month; ToDelete holds only such records.
Thm_C2 ==
    Planned =>
        /\ \A id \in MirrorOnlyKeys :
             id \in Keys(updates.ToDelete)
                <=> ParseDate(airtableTs[id].DateTime) > Cutoff(now)
        /\ \A i \in DOMAIN updates.ToDelete :
             /\ updates.ToDelete[i].PlaidID \in MirrorOnlyKeys
             /\ updates.ToDelete[i] = airtableTs[updates.ToDelete[i].PlaidID]

\* a mirror-only record dated exactly at the cutoff instant is kept
Wit_C2 ==
    /\ Planned
    /\ \E id \in MirrorOnlyKeys :
         /\ ParseDate(airtableTs[id].DateTime) = Cutoff(now)
         /\ id \notin Keys(updates.ToDelete)

\* C3: every key of the source that the mirror lacks is in ToCreate, with the
\* source's record, and ToCreate holds no key of the mirror.
Thm_C3 ==
    Planned =>
        /\ \A id \in SourceOnly :
             \E i \in DOMAIN updates.ToCreate : updates.ToCreate[i] = plaidTs[id]
        /\ Keys(updates.ToCreate) \cap DOMAIN airtableTs = {}

\* a plan that creates one key while another key is in both maps and changed
Wit_C3 ==
    /\ Planned
    /\ updates.ToCreate # <<>>
    /\ \E id \in Both : MutableFieldsDiffer(airtableTs[id], plaidTs[id])

\* C4: a key in both maps is in ToUpdate exactly when the pending flag or the
\* address differs, whatever the amount and the date, and it is never in
\* ToCreate or ToDelete.
Thm_C4 ==
    Planned =>
        \A id \in Both :
            /\ id \in Keys(updates.ToUpdate)
                 <=> (airtableTs[id].Pending # plaidTs[id].Pending
                        \/ airtableTs[id].Address # plaidTs[id].Address)
            /\ id \notin Keys(updates.ToCreate)
            /\ id \notin Keys(updates.ToDelete)

\* a key in both maps, same pending flag and address, other amount and date,
\* left out of the plan
Wit_C4 ==
    /\ Planned
    /\ \E id \in Both :
         /\ airtableTs[id].Pending = plaidTs[id].Pending
         /\ airtableTs[id].Address = plaidTs[id].Address
         /\ airtableTs[id].Amount # plaidTs[id].Amount
         /\ airtableTs[id].DateTime # plaidTs[id].DateTime
         /\ id \notin Keys(updates.ToCreate) \cup Keys(updates.ToUpdate) \cup Keys(updates.ToDelete)

Returned == wpc = "returned"
LoginRequired(e) == e.kind = "plaid" /\ e.code = "ITEM_LOGIN_REQUIRED"

\* C6: the wrapper runs the action at most twice and Relink at most once; a
\* login-required failure followed by a relink and a successful retry returns
\* nil after one relink, and two login-required failures return the second one
\* after one relink and two invocations.
Thm_C6 ==
    /\ Len(actionResults) <= 2
    /\ Len(relinkResults) <= 1
    /\ (Len(actionResults) = 2 /\ LoginRequired(actionResults[1])
            /\ actionResults[2] = NoErr) =>
          /\ Returned
          /\ ret = NoErr
          /\ relinkResults = <<NoErr>>
    /\ (Len(actionResults) = 2 /\ LoginRequired(actionResults[1])
            /\ LoginRequired(actionResults[2])) =>
          /\ Returned
          /\ ret = actionResults[2]
          /\ ret.call = 2
          /\ relinkResults = <<NoErr>>

\* the action failed twice with the login-required code and the wrapper returned
Wit_C6 ==
    /\ Returned
    /\ Len(actionResults) = 2
    /\ LoginRequired(actionResults[1])
    /\ LoginRequired(actionResults[2])
    /\ ret = actionResults[2]

\* C7: when the first result of the action is nil or an error without the
\* login-required code, the action is run once, Relink is never called and the
\* wrapper returns that result.
Thm_C7 ==
    (Len(actionResults) >= 1 /\ ~LoginRequired(actionResults[1])) =>
        /\ Len(actionResults) = 1
        /\ relinkResults = <<>>
        /\ wpc \in {"check", "returned"}
        /\ Returned => ret = actionResults[1]

\* the wrapper returned a Plaid error with another code, untouched
Wit_C7 ==
    /\ Returned
    /\ Len(actionResults) = 1
    /\ actionResults[1].kind = "plaid"
    /\ actionResults[1].code = "RATE_LIMIT_EXCEEDED"
    /\ ret = actionResults[1]

\* C8: after a login-required failure, an error returned by Relink is what the
\* wrapper returns and the action is not run again; when Relink returns nil the
\* action is run exactly once more and its result is what the wrapper returns.
Thm_C8 ==
    Len(relinkResults) = 1 =>
        /\ relinkResults[1] \in RelinkErrors =>
              /\ Len(actionResults) = 1
              /\ Returned
              /\ ret = relinkResults[1]
        /\ (relinkResults[1] = NoErr /\ Returned) =>
              /\ Len(actionResults) = 2
              /\ ret = actionResults[2]

\* Relink failed and the wrapper returned its error
Wit_C8 ==
    /\ Returned
    /\ Len(relinkResults) = 1
    /\ relinkResults[1] \in RelinkErrors
    /\ ret = relinkResults[1]
    /\ LoginRequired(actionResults[1])

\* an AllTransactions call has just returned without error
FetchReturnedNil ==
    /\ wpc \in {"check", "returned"}
    /\ actionResults # <<>>
    /\ actionResults[Len(actionResults)] = NoErr

CeilDiv(a, b) == (a + b - 1) \div b

\* C9 (as stated): against a server holding T records and paging by P, the
\* fetcher issues exactly ceil(T/P) requests and returns the T records in order.
CE_C9 ==
    (FetchReturnedNil /\ srvMode = "honest") =>
        /\ requests = CeilDiv(srvTotal, pageCount)
        /\ transactions = [i \in 1..srvTotal |-> i]

\* C9 (amended): it issues ceil(T/P) requests, and one request when T = 0, and
\* returns the T records in server order, none twice, none skipped.
Thm_C9 ==
    (FetchReturnedNil /\ srvMode = "honest") =>
        /\ requests = Max(1, CeilDiv(srvTotal, pageCount))
        /\ transactions = [i \in 1..srvTotal |-> i]

\* five records in pages of two: three requests
Wit_C9 ==
    /\ FetchReturnedNil
    /\ srvMode = "honest"
    /\ srvTotal = 5
    /\ pageCount = 2
    /\ requests = 3
    /\ transactions = <<1, 2, 3, 4, 5>>

\* C10: every call of AllTransactions returns, whatever the server answers.
CE_C10 == [](wpc = "first" => <>(wpc \notin {"first", "loop"}))

\* ------------------------------------------------------------------ claim C11
\* C11: when the first response reports a total of zero, AllTransactions issues
\* that one request and no page request, and (the server holding no record)
\* returns an empty result.
Thm_C11 ==
    ((wpc = "loop" \/ FetchReturnedNil) /\ total = 0) =>
        /\ requests = 1
        /\ srvMode = "honest" => transactions = <<>>

\* the call returned nil from a server that holds no record
Wit_C11 ==
    /\ FetchReturnedNil
    /\ srvMode = "honest"
    /\ srvTotal = 0
    /\ total = 0
    /\ requests = 1
    /\ transactions = <<>>

\* ------------------------------------------------------------------ claims C12..C16
\* every value sent or waiting to be sent on a channel of the Linker
Sends == pending \cup UNION {Range(received[c]) : c \in DOMAIN received}
SendsOf(n) == {p \in Sends : p.req = n}

\* C12: a POST /link with a public_token attempts one delivery, on Results, of
\* that token; a POST /link without it one on Errors; a POST /relink with an
\* empty error field one on RelinkResults; a POST /relink with an error one on
\* Errors; a GET none.
Thm_C12 ==
    \A n \in DOMAIN http :
        LET r == http[n]
            want == CASE r.method = "GET" -> "none"
                      [] r.method = "POST" /\ r.path = "/link" /\ r.field # "" -> "Results"
                      [] r.method = "POST" /\ r.path = "/link" /\ r.field = "" -> "Errors"
                      [] r.method = "POST" /\ r.path = "/relink" /\ r.field = "" -> "RelinkResults"
                      [] r.method = "POST" /\ r.path = "/relink" /\ r.field # "" -> "Errors"
                      [] OTHER -> r.ch
        IN /\ r.ch = want
           /\ Cardinality(SendsOf(n)) = IF want = "none" THEN 0 ELSE 1
           /\ \A p \in SendsOf(n) :
                /\ p.ch = want
                /\ (r.path = "/link" /\ want = "Results") => p.val = r.field

\* a POST /relink carrying an error was handled, and a GET before it
Wit_C12 ==
    /\ Len(http) = 2
    /\ http[1].method = "GET"
    /\ http[2].method = "POST" /\ http[2].path = "/relink" /\ http[2].field # ""
    /\ \E p \in pending : p.req = 2 /\ p.ch = "Errors"

\* C13: a request on /link or /relink whose method is neither GET nor POST
\* attempts one delivery, on Errors, and the flow that receives it returns an
\* error (without an exchange).
Thm_C13 ==
    \A n \in DOMAIN http :
        http[n].method \notin {"GET", "POST"} =>
            /\ http[n].ch = "Errors"
            /\ Cardinality(SendsOf(n)) = 1
            /\ \A p \in SendsOf(n) : p.ch = "Errors"
            /\ \A c \in DOMAIN received :
                 (\E i \in DOMAIN received[c] : received[c][i].req = n) =>
                    /\ lresult[c] = ErrResult("Invalid HTTP method")
                    /\ lpc[c] = "returned"
                    /\ exchangeCalls = <<>>

\* Link returned the error of a PUT on /link
Wit_C13 ==
    /\ lmode = "link"
    /\ lpc[1] = "returned"
    /\ Len(received[1]) = 1
    /\ received[1][1].req > 0
    /\ http[received[1][1].req].method = "PUT"
    /\ lresult[1] = ErrResult("Invalid HTTP method")

\* C14: a Link call receives one value; when it comes from Errors (a handler
\* or the failed listener) Link returns it and exchanges nothing; when it is a
\* public token Link makes one exchange call with it and returns the pair of
\* the response, or the exchange error.
Thm_C14 ==
    lmode = "link" =>
        /\ Len(received[1]) <= 1
        /\ Len(exchangeCalls) <= 1
        /\ lpc[1] \in {"exchange", "returned", "saved"} <=> Len(received[1]) = 1
        /\ lpc[1] \in {"returned", "saved"} =>
             LET p == received[1][1]
             IN /\ p.ch = "Errors" =>
                     lresult[1] = ErrResult(p.val) /\ exchangeCalls = <<>>
                /\ p.ch = "Results" =>
                     /\ Len(exchangeCalls) = 1
                     /\ exchangeCalls[1].token = p.val
                     /\ exchangeCalls[1].ok =>
                          lresult[1] = [kind |-> "pair",
                                        val |-> <<ExchangeResponse(p.val).ItemId,
                                                  ExchangeResponse(p.val).AccessToken>>]
                     /\ ~exchangeCalls[1].ok => lresult[1].kind = "error"

\* Link returned the pair although an error was sent after the token
Wit_C14 ==
    /\ lmode = "link"
    /\ lpc[1] = "returned"
    /\ lresult[1].kind = "pair"
    /\ \E p \in pending : p.ch = "Errors"

\* C15: a Relink call receives one value and returns nil when it came from
\* RelinkResults and the delivered error when it came from Errors; it makes no
\* exchange call and leaves the stored access tokens as they were.
Thm_C15 ==
    lmode = "relink" =>
        /\ exchangeCalls = <<>>
        /\ tokens = InitialTokens("relink")
        /\ \A c \in DOMAIN lpc :
             /\ Len(received[c]) <= 1
             /\ lpc[c] = "returned" <=> Len(received[c]) = 1
             /\ lpc[c] = "returned" =>
                  LET p == received[c][1]
                  IN /\ p.ch = "RelinkResults" => lresult[c] = NilResult
                     /\ p.ch = "Errors" => lresult[c] = [kind |-> "error", val |-> <<p.val>>]
                     /\ p.ch \in {"RelinkResults", "Errors"}

\* Relink returned the error posted by the page
Wit_C15 ==
    /\ lmode = "relink"
    /\ \E c \in DOMAIN lpc :
         /\ lpc[c] = "returned"
         /\ received[c][1].req > 0
         /\ lresult[c] = ErrResult("v")

\* C16: at most one caller of Relink is between the creation of the link token
\* and the return from the select, and a caller that returned holds no lock.
InRelink(c) == lpc[c] \in {"token", "spawn", "wait"}

Thm_C16 ==
    lmode = "relink" =>
        /\ Cardinality({c \in DOMAIN lpc : InRelink(c)}) <= 1
        /\ \A c \in DOMAIN lpc : InRelink(c) <=> mu = c
        /\ \A c \in DOMAIN lpc : lpc[c] \in {"call", "returned"} => mu # c

\* a second caller is inside Relink after the first returned
Wit_C16 ==
    /\ lmode = "relink"
    /\ \E c, d \in DOMAIN lpc : lpc[c] = "returned" /\ lpc[d] = "wait" /\ mu = d

\* ------------------------------------------------------------------ claims C17, C18, C20
Succeeded == {i \in Workers : fetched[i].ok}
RECURSIVE Concat(_)
Concat(order) ==
    IF order = <<>> THEN <<>> ELSE fetched[Head(order)].list \o Concat(Tail(order))

\* C17: fan-out and join. Every item the spawn loop has passed has a worker
\* exactly when it is not the skipped one (and no item ahead of the loop has
\* one); when Sync is called every worker has finished, and the list Sync is
\* given is the lists returned to the workers whose fetch succeeded, each
\* whole, one after the other in some order: no append is lost or torn.
Thm_C17 ==
    /\ \A i \in Workers :
         /\ i < item => (worker[i] = "none" <=> Skipped(items[i]))
         /\ i >= item => worker[i] = "none"
    /\ syncArgs.started =>
         /\ \A i \in Workers : worker[i] \in {"none", "done"}
         /\ \E o \in Orders(Succeeded) : syncArgs.list = Concat(o)

Wit_C17 ==
    /\ syncArgs.started
    /\ Cardinality(Succeeded) = 2
    /\ \A i \in Succeeded : fetched[i].list # <<>>
    /\ Len(syncArgs.list) >= 3

AllWorkersFinished == \A i \in Workers : worker[i] \in {"none", "done"}

\* C18 as stated: once the mirror has been fetched, every worker has finished
CE_C18 ==
    /\ mirrorFetches <= 1
    /\ mirrorFetches = 1 => AllWorkersFinished

\* C18, amended: the mirror is fetched at most once, only when the spawn loop
\* has started every worker, and exactly once before the join returns and
\* before Sync is called; the item fetches may still be running.
Thm_C18 ==
    /\ mirrorFetches <= 1
    /\ mirrorFetches = 1 => mpc \notin {"loop", "mirror"} /\ item > Len(items)
    /\ mpc \in {"sync", "syncing", "done"} => mirrorFetches = 1
    /\ syncArgs.started => mirrorFetches = 1

Wit_C18 ==
    /\ mirrorFetches = 1
    /\ mpc = "wait"
    /\ \E i \in Workers : worker[i] = "action1"

\* C20 as stated: a worker whose failed fetch ended the process has cut off
\* no sibling: every other worker that was started has finished
CE_C20 ==
    exited = "relink" =>
        \A i \in Workers : worker[i] \in {"none", "done", "fatal"}

\* ------------------------------------------------------------------ claim C19
Rank(op) == CASE op = "Delete" -> 1 [] op = "Create" -> 2 [] op = "Update" -> 3
AcctOf(k) == ops[k].rec.AccountID

\* C19 as stated: over the whole run no create precedes a delete and no update
\* precedes a create or a delete
CE_C19 ==
    \A i, j \in DOMAIN ops : i < j => Rank(ops[i].op) <= Rank(ops[j].op)

\* C19, amended: the writes are issued one at a time (a failed write is the
\* last one), the writes of an account are consecutive, and within an account
\* every delete precedes every create and every create precedes every update.
Thm_C19 ==
    /\ \A i \in DOMAIN ops : ~ops[i].ok => i = Len(ops)
    /\ \A i, j \in DOMAIN ops :
         i < j /\ AcctOf(i) = AcctOf(j) =>
            /\ Rank(ops[i].op) <= Rank(ops[j].op)
            /\ \A k \in i..j : AcctOf(k) = AcctOf(i)

Wit_C19 ==
    /\ rpc = "returned"
    /\ \E i, j \in DOMAIN ops :
         /\ i < j
         /\ ops[i].op = "Update" /\ ops[j].op = "Delete"
         /\ AcctOf(i) # AcctOf(j)
    /\ \E i, j \in DOMAIN ops :
         /\ i < j
         /\ ops[i].op = "Create" /\ ops[j].op = "Update"
         /\ AcctOf(i) = AcctOf(j)

\* ------------------------------------------------------------------ claim C21
Failed == {k \in DOMAIN ops : ~ops[k].ok}
Remaining == DOMAIN plaidArranged \ visited

\* C21: a failed write aborts the write phase. Sync has returned an error
\* exactly when a store call returned one, and that call is the last one of
\* the run: nothing is issued after it, for the running account or for the
\* accounts the loop has not reached.
Thm_C21 ==
    /\ Failed # {} <=> rpc = "failed"
    /\ Failed \subseteq {Len(ops)}

Wit_C21 ==
    /\ rpc = "failed"
    /\ Remaining # {}
    /\ ops[Len(ops)].op = "Delete"
    /\ updates.ToCreate # <<>>

\* ------------------------------------------------------------------ claim C22
\* rows of the running account that have no source record and a date that
\* does not parse
UnparseableMirrorOnly ==
    {id \in DOMAIN airtableTs \ DOMAIN plaidTs : ~ParseOk(airtableTs[id].DateTime)}

\* C22: updateAccount panics exactly when the account's mirror has a row
\* without a source record whose date does not parse. The panic leaves no plan
\* and no write for that account, and nothing runs after it; a row with such a
\* date whose key is in the source does not stop the run.
Thm_C22 ==
    /\ [](/\ rpc = "panicked" =>
                /\ UnparseableMirrorOnly # {}
                /\ updates = EmptyUpdate
                /\ \A k \in DOMAIN ops : AcctOf(k) # accountID
          /\ rpc \in {"delete", "create", "update", "done", "failed"} =>
                UnparseableMirrorOnly = {})
    /\ [][rpc # "panicked"]_vars

Wit_C22 ==
    /\ rpc = "panicked"
    /\ ops # <<>>
    /\ \E a \in visited \ {accountID} :
         \E id \in DOMAIN plaidArranged[a] \cap DOMAIN MapGet(airtableArranged, a) :
            ~ParseOk(airtableArranged[a][id].DateTime)

\* ------------------------------------------------------------------ claim C26
\* the accounts that have rows in the mirror and no record in the source
MirrorOnlyAccounts == DOMAIN airtableArranged \ DOMAIN plaidArranged

\* C26: accounts absent from the source are left untouched. No store call is
\* issued for a record of such an account, and the table keeps exactly the
\* rows it held for it, whatever their dates.
Thm_C26 ==
    /\ \A k \in DOMAIN ops : AcctOf(k) \in DOMAIN plaidArranged
    /\ \A a \in MirrorOnlyAccounts :
         {r \in store : r.AccountID = a} = Range(airtableArranged[a])

Wit_C26 ==
    /\ rpc = "returned"
    /\ \E k \in DOMAIN ops : ops[k].op = "Delete"
    /\ \E a \in MirrorOnlyAccounts :
         \E id \in DOMAIN airtableArranged[a] :
            /\ ParseOk(airtableArranged[a][id].DateTime)
            /\ After(ParseDate(airtableArranged[a][id].DateTime), Cutoff(now))

\* ------------------------------------------------------------------ claim C23
UnknownAlias == arg # "all" /\ arg \notin DOMAIN aliases

\* C23: an unknown alias is rejected before any side effect. Past the lookup
\* the command has ended in the panic, and then no worker was started (so no
\* fetch and no relink), the mirror was not fetched and Sync was not called.
Thm_C23 ==
    /\ UnknownAlias /\ mpc # "resolve" => exited = "alias"
    /\ exited = "alias" =>
         /\ UnknownAlias
         /\ items = <<>> /\ worker = <<>> /\ wg = 0
         /\ runTransactions = <<>>
         /\ mirrorFetches = 0
         /\ syncArgs = NotStarted

Wit_C23 ==
    /\ exited = "alias"
    /\ aliases # <<>>

\* ------------------------------------------------------------------ claims C27, C28
RowsOf(id) == {r \in store : r.PlaidID = id}
\* a mirror-only row of the account that the plan keeps: dated at or before the cutoff
KeptRow(r) == ParseOk(r.DateTime) /\ ParseDate(r.DateTime) <= Cutoff(now)

\* C27: once the whole plan of an account has been applied without error, the
\* table holds exactly one row for every source key, with the source's pending
\* flag and address, and its other rows are the mirror-only rows dated at or
\* before the cutoff, all of them.
Thm_C27 ==
    rpc = "done" =>
        /\ \A id \in DOMAIN plaidTs :
             /\ Cardinality(RowsOf(id)) = 1
             /\ \A r \in RowsOf(id) :
                  r.Pending = plaidTs[id].Pending /\ r.Address = plaidTs[id].Address
        /\ {r \in store : r.PlaidID \notin DOMAIN plaidTs}
              = {airtableTs[id] : id \in {k \in MirrorOnlyKeys : KeptRow(airtableTs[k])}}

Wit_C27 ==
    /\ rpc = "done"
    /\ updates.ToUpdate # <<>> /\ updates.ToDelete # <<>>
    /\ Len(ops) = 2
    /\ \A k \in DOMAIN ops : ops[k].ok

\* the maps byAccountIDbyTransactionID can build from the rows of the table
StoreMaps ==
    {m \in [{r.PlaidID : r \in store} -> store] : \A id \in DOMAIN m : m[id].PlaidID = id}

\* C28: reconciliation is idempotent. After a plan was applied in full,
\* updateAccount on the same source, the same clock and the table as it is
\* now returns three empty lists, whatever the orders of its loops.
Thm_C28 ==
    rpc = "done" =>
        \A m \in StoreMaps :
            LET p0 == CHOOSE o \in Orders(DOMAIN plaidTs) : TRUE
                a0 == CHOOSE o \in Orders(DOMAIN m) : TRUE
            IN \* the first loop sees only pOrder and the second only aOrder
               /\ \A pOrder \in Orders(DOMAIN plaidTs) :
                    updateAccount(plaidTs, m, pOrder, a0, now) = EmptyUpdate
               /\ \A aOrder \in Orders(DOMAIN m) :
                    updateAccount(plaidTs, m, p0, aOrder, now) = EmptyUpdate

Wit_C28 ==
    /\ rpc = "done"
    /\ \E k \in DOMAIN ops : ops[k].op = "Update"
    /\ \E r \in store : r.PlaidID \notin DOMAIN plaidTs

\* ------------------------------------------------------------------ claims C24, C29
\* C24 as stated: after one Relink flow has returned success, a further flow on
\* the same Linker is not broken by the first one's route registration: the
\* process ends only when a link token cannot be created
CE_C24 ==
    crashed /\ (\E c \in DOMAIN lresult : lresult[c] = NilResult) =>
        \E c \in DOMAIN lpc : lpc[c] = "token"

\* C29 as stated: every value a Link or Relink call receives was sent by a
\* handler or listener goroutine of that same call
CE_C29 ==
    \A c \in DOMAIN received :
        \A i \in DOMAIN received[c] : received[c][i].owner = c

\* ------------------------------------------------------------------ claim C25
\* C25 as stated: at every call site, when the Plaid call of the first
\* invocation returned the login-required error, the wrapper has run Relink
\* exactly once by the time it returns, and after a successful Relink it has
\* run the action a second time
CE_C25 ==
    wpc = "returned" /\ apiResults # <<>> /\ LoginRequired(apiResults[1]) =>
        /\ Len(relinkResults) = 1
        /\ relinkResults[1] = NoErr => Len(actionResults) = 2

\* ------------------------------------------------------------------ claim C30
\* the invocations of the action that returned nil
Succeeded_Runs == {i \in DOMAIN actionResults : actionResults[i] = NoErr}

PendingChanged == {id \in Both : airtableTs[id].Pending # plaidTs[id].Pending}
\* keys the delete+create plan names in both of its lists
Pairs == Keys(updates.ToCreate) \cap Keys(updates.ToDelete)
CreatesOf(id) == {k \in DOMAIN ops : ops[k].op = "Create" /\ ops[k].rec.PlaidID = id}
DeletesOf(id) == {k \in DOMAIN ops : ops[k].op = "Delete" /\ ops[k].rec.PlaidID = id}

\* C31: in the delete+create variant a key of both maps whose pending flag
\* differs is in ToCreate with the source's record and in ToDelete with the
\* source's record under the mirror row's ID, and no other key is in both
\* lists; when no address differs these are the keys the update-capable
\* variant puts in ToUpdate; every mirror-only record is in ToDelete, whatever
\* its date; and the create of such a key is issued only after its delete
\* succeeded.
Thm_C31 ==
    Planned =>
        /\ Pairs = PendingChanged
        /\ \A id \in PendingChanged :
             /\ plaidTs[id] \in Range(updates.ToCreate)
             /\ [plaidTs[id] EXCEPT !.ID = airtableTs[id].ID] \in Range(updates.ToDelete)
        /\ (\A id \in Both : airtableTs[id].Address = plaidTs[id].Address) =>
              \A pOrder \in Orders(DOMAIN plaidTs) :
                  Keys(FirstLoop(pOrder, plaidTs, airtableTs, EmptyUpdate).ToUpdate) = Pairs
        /\ \A id \in MirrorOnlyKeys : airtableTs[id] \in Range(updates.ToDelete)
        /\ \A id \in Pairs : \A c \in CreatesOf(id) :
              \E d \in DeletesOf(id) :
                  d < c /\ ops[d].ok /\ ops[d].rec.ID = airtableTs[id].ID
        /\ rpc = "done" => \A id \in Pairs : CreatesOf(id) # {} /\ DeletesOf(id) # {}

\* the account's iteration ended after the row of a settled transaction was
\* deleted and created again, and a mirror-only row older than a month (or
\* with a date that does not parse) was deleted
Wit_C31 ==
    /\ rpc = "done"
    /\ \E id \in PendingChanged :
         /\ airtableTs[id].Address = plaidTs[id].Address
         /\ \E d \in DeletesOf(id), c \in CreatesOf(id) : d < c /\ ops[c].ok
    /\ \E id \in MirrorOnlyKeys :
         /\ ~ParseOk(airtableTs[id].DateTime) \/ ParseDate(airtableTs[id].DateTime) < DateInstant(2, 1, 0)
         /\ \E d \in DeletesOf(id) : ops[d].ok

\* ------------------------------------------------------------------ claim C32
\* the call of SyncAccounts that is running, or that returned last
ThisCall == IF kpc = "returned" THEN Len(returns) ELSE Len(returns) + 1
OpsOfCall(c) == SelectSeq(accountOps, LAMBDA o : o.call = c)
\* entries of plaidAccounts the loop of the call has dealt with
Dealt ==
    LET own == OpsOfCall(ThisCall)
    IN IF own # <<>> /\ ~own[Len(own)].ok THEN ai ELSE ai - 1
DistinctAccounts ==
    \A i, j \in DOMAIN plaidAccounts :
        plaidAccounts[i].AccountID = plaidAccounts[j].AccountID => i = j
Inv_C32 ==
    \* the Creates of the call are, in order, the entries whose id was not listed
    /\ [i \in DOMAIN OpsOfCall(ThisCall) |-> OpsOfCall(ThisCall)[i].rec]
          = SelectSeq(SubSeq(plaidAccounts, 1, Dealt),
                      LAMBDA r : r.AccountID \notin existingIDs)
    /\ \A k \in DOMAIN accountOps :
         /\ accountOps[k].op = "Create"
         /\ accountOps[k].rec.AccountID \notin accountOps[k].listed
         /\ DistinctAccounts => accountOps[k].rec.AccountID \notin accountOps[k].had
         /\ ~accountOps[k].ok =>
              /\ \A j \in DOMAIN accountOps : j > k => accountOps[j].call > accountOps[k].call
              /\ accountOps[k].call \in DOMAIN returns => returns[accountOps[k].call] = "error"
    /\ \A c \in DOMAIN returns :
         c > 1 /\ returns[c - 1] = "nil" => OpsOfCall(c) = <<>>
    /\ kpc # "returned" /\ Len(returns) >= 1 /\ returns[Len(returns)] = "nil" =>
          OpsOfCall(ThisCall) = <<>>

\* C32: SyncAccounts issues a Create for exactly the entries of its list whose
\* AccountID was not among the rows it listed, in list order, and for no
\* AccountID the table holds (the ids of a list being distinct); it issues
\* nothing but Creates and no row of the table is removed or changed; a failed
\* Create is the last call of its run, which returns the error; and a run that
\* follows a run that returned nil, on the same list, creates nothing.
Thm_C32 ==
    /\ []Inv_C32
    /\ [][/\ accountsTable \subseteq accountsTable'
          /\ Cardinality(accountsTable') <= Cardinality(accountsTable) + 1]_vars

\* two calls returned nil; the first skipped an account the table held under
\* another name and created one the table lacked
Wit_C32 ==
    /\ kpc = "returned"
    /\ returns = <<"nil", "nil">>
    /\ DistinctAccounts
    /\ \E i, j \in DOMAIN plaidAccounts :
         /\ \E r \in accountsTable :
              r.AccountID = plaidAccounts[i].AccountID /\ r.Name = "stored"
         /\ \E k \in DOMAIN accountOps :
              accountOps[k].ok /\ accountOps[k].rec = plaidAccounts[j]

====
